---- MODULE Spec2Model ----
(***************************************************************************)
(* Model of the autofill-codes extension's heuristic core:                 *)
(*   - extractVerificationCode / isLikelyCode (src/src/utils/gmail.js)      *)
(*   - findCodeField / findSplitCodeInputs (src/src/content/index.js)       *)
(* A text is a sequence of characters, each a one-character string; the    *)
(* characters outside ASCII that the source's patterns name are written as *)
(* the names EM_DASH, EN_DASH, EURO, POUND and YEN.  Offsets are those of   *)
(* JavaScript: the character at offset p of s is s[p + 1].                  *)
(*   - the content script's detection loop, observers, message listener and *)
(*     fill (src/src/content/index.js)                                      *)
(*   - fetchLatestCode, handleCodeFieldDetected and the polling session     *)
(*     (src/src/background/index.js)                                        *)
(***************************************************************************)
EXTENDS Integers, Sequences, FiniteSets, TLC

VARIABLES
    subject,      \* extractVerificationCode: parameter subject
    text,         \* extractVerificationCode: parameter text (the body)
    pc,           \* "start", or the return statement the call left by
    match,        \* the local match of the Tier A loop (None when null)
    scanned,      \* the values the local m took in the Tier B while loop
    candidates,   \* the local candidates array
    result,       \* the value returned (Null for null)
    page,         \* the document: its input elements in document order
    pageContext,  \* whether document.body.innerText matches a CONTEXT_PATTERNS entry
    cpc,          \* "start", or the return statement findCodeField left by
    splitInputs,  \* content script: let splitInputs (Null for null)
    field,        \* what findCodeField returned (NoElement for null)
    detectedField,          \* content script: let detectedField (Null for null)
    hasNotifiedBackground,  \* content script: let hasNotifiedBackground
    href,         \* location.href
    lastUrl,      \* content script: let lastUrl
    visit,        \* which rendering of the page the document now holds
    callbacks,    \* the observer callbacks a mutation has queued, in order
    inflight,     \* responses and messages on their way to the content script
    sent,         \* log of the CODE_FIELD_DETECTED messages sent and the resets
    fills,        \* what fillCode did in the step just taken (NoFill if none)
    handled,      \* the responses and tab messages the content script has
                  \* handled, each with what fillCode did for it
    inbox,        \* the messages the mail search returns, newest first
    script,       \* the outcomes of the next calls to the identity and mail APIs
    fetched,      \* fetchLatestCode: the messages whose content was requested
    fetchResult,  \* what fetchLatestCode resolved to (None before it has)
    searches,     \* fetchLatestCode: how many times the mail search was called
    isPolling,    \* background: let isPolling
    pollIntervalId, \* background: let pollIntervalId (0 for null)
    timers,       \* the intervals setInterval made, by id: the closure of each
                  \* (tabId, elapsed), whether it is still set, its fetches
    awaiting,     \* how many calls are suspended in await fetchLatestCode(),
                  \* for each interval's callback and each tab's handler
    tabMessages,  \* what chrome.tabs.sendMessage has sent, in order
    responses,    \* what sendResponse has answered, in order
    storage       \* chrome.storage.local: the items authenticated and enabled

extractorVars == <<subject, text, pc, match, scanned, candidates, result>>
classifierVars == <<page, pageContext, cpc, splitInputs, field>>
contentVars ==
    <<detectedField, hasNotifiedBackground, href, lastUrl, visit, callbacks,
      inflight, sent, fills, handled>>
fetchVars == <<inbox, script, fetched, fetchResult, searches>>
pollingVars ==
    <<isPolling, pollIntervalId, timers, awaiting, tabMessages, responses,
      storage>>

vars == <<extractorVars, classifierVars, contentVars, fetchVars, pollingVars>>

None == [none |-> TRUE]

\* null where the source has a string or an array, or null: no string the
\* extractor returns and no array findSplitCodeInputs returns is empty.
Null == <<>>

\* An element is named by its place in the document, from 1; null is 0.
NoElement == 0

\* The parts of the state a specification does not run, at rest.
ExtractorIdle ==
    /\ subject = <<>> /\ text = <<>> /\ pc = "start" /\ match = None
    /\ scanned = <<>> /\ candidates = <<>> /\ result = Null

ClassifierIdle ==
    /\ page = <<>> /\ pageContext = FALSE /\ cpc = "start"
    /\ splitInputs = Null /\ field = NoElement

\* No call of fillCode.
NoFill == [by |-> 0, code |-> <<>>, done |-> <<>>]

ContentIdle ==
    /\ detectedField = Null /\ hasNotifiedBackground = FALSE
    /\ href = 1 /\ lastUrl = 1 /\ visit = 1 /\ callbacks = <<>>
    /\ inflight = {} /\ sent = <<>> /\ fills = NoFill /\ handled = <<>>

FetchIdle ==
    /\ inbox = <<>> /\ script = <<>> /\ fetched = <<>> /\ fetchResult = None
    /\ searches = 0

PollingIdle ==
    /\ isPolling = FALSE /\ pollIntervalId = 0 /\ timers = <<>>
    /\ awaiting = <<>> /\ tabMessages = <<>> /\ responses = <<>>
    /\ storage = [authenticated |-> "undefined", enabled |-> "undefined"]

------------------------------------------------------------------------------
(* Characters and character classes                                         *)

Digits == {"0", "1", "2", "3", "4", "5", "6", "7", "8", "9"}

UpperLetters ==
    {"A", "B", "C", "D", "E", "F", "G", "H", "I", "J", "K", "L", "M",
     "N", "O", "P", "Q", "R", "S", "T", "U", "V", "W", "X", "Y", "Z"}

LowerLetters ==
    {"a", "b", "c", "d", "e", "f", "g", "h", "i", "j", "k", "l", "m",
     "n", "o", "p", "q", "r", "s", "t", "u", "v", "w", "x", "y", "z"}

Letters == UpperLetters \cup LowerLetters

\* Case folding of the i flag, on the letters of the alphabet.
LowerOf ==
    "A" :> "a" @@ "B" :> "b" @@ "C" :> "c" @@ "D" :> "d" @@ "E" :> "e" @@
    "F" :> "f" @@ "G" :> "g" @@ "H" :> "h" @@ "I" :> "i" @@ "J" :> "j" @@
    "K" :> "k" @@ "L" :> "l" @@ "M" :> "m" @@ "N" :> "n" @@ "O" :> "o" @@
    "P" :> "p" @@ "Q" :> "q" @@ "R" :> "r" @@ "S" :> "s" @@ "T" :> "t" @@
    "U" :> "u" @@ "V" :> "v" @@ "W" :> "w" @@ "X" :> "x" @@ "Y" :> "y" @@
    "Z" :> "z"

Fold(c) == IF c \in UpperLetters THEN LowerOf[c] ELSE c

\* \s
SpaceChars == {" ", "\n", "\t", "\r"}

\* The line terminators ^ and $ see under the m flag.
LineTerminators == {"\n", "\r"}

\* [A-Z0-9] under the i flag, and without it.
AlnumI == Digits \cup UpperLetters \cup LowerLetters
AlnumU == Digits \cup UpperLetters

\* \w, the class \b is defined by.
WordChars == AlnumI \cup {"_"}

\* The character at offset p of s; "" outside the string.
At(s, p) == IF p >= 0 /\ p < Len(s) THEN s[p + 1] ELSE ""

\* s.substring(a, b) for 0 <= a; b is clamped to the length as substring does.
Substring(s, a, b) ==
    LET hi == IF b > Len(s) THEN Len(s) ELSE b
        lo == IF a > hi THEN hi ELSE a
    IN  SubSeq(s, lo + 1, hi)

Max(a, b) == IF a >= b THEN a ELSE b

\* Body(v), with v evaluated once and held as a value: how a const of the
\* source is modelled where the value is costly and used more than once.
Bind(v, Body(_)) == CHOOSE r \in {Body(x) : x \in {v}} : TRUE

\* The literal w (given in lower case) at offset p, under the i flag.
LitAtI(s, p, w) ==
    /\ p + Len(w) <= Len(s)
    /\ \A i \in 1..Len(w) : Fold(s[p + i]) = w[i]

\* The literal w at offset p, case-sensitive.
LitAt(s, p, w) ==
    /\ p + Len(w) <= Len(s)
    /\ \A i \in 1..Len(w) : s[p + i] = w[i]

\* Number of characters of class cls from offset p on, at most max: what a
\* greedy cls{0,max} consumes.
RunLen(s, p, cls, max) ==
    CHOOSE n \in 0..max :
        /\ \A i \in 0..(n - 1) : At(s, p + i) \in cls
        /\ n = max \/ At(s, p + n) \notin cls

\* The offset a greedy cls* ends at when started at p.
SkipAll(s, p, cls) ==
    CHOOSE q \in p..Max(p, Len(s)) :
        /\ \A i \in p..(q - 1) : At(s, i) \in cls
        /\ At(s, q) \notin cls

\* \b at offset p.
WordBoundary(s, p) == (At(s, p - 1) \in WordChars) # (At(s, p) \in WordChars)

\* The first element of a sequence of attempts that is not None.
RECURSIVE FirstHit(_)
FirstHit(attempts) ==
    IF attempts = <<>> THEN None
    ELSE IF Head(attempts) # None THEN Head(attempts)
    ELSE FirstHit(Tail(attempts))

------------------------------------------------------------------------------
(* The literal words of the patterns, in lower case where the pattern has   *)
(* the i flag.                                                               *)

Words ==
    [verification |-> <<"v", "e", "r", "i", "f", "i", "c", "a", "t", "i", "o", "n">>,
     security |-> <<"s", "e", "c", "u", "r", "i", "t", "y">>,
     confirmation |-> <<"c", "o", "n", "f", "i", "r", "m", "a", "t", "i", "o", "n">>,
     confirm |-> <<"c", "o", "n", "f", "i", "r", "m">>,
     login |-> <<"l", "o", "g", "i", "n">>,
     sign |-> <<"s", "i", "g", "n">>,
     in |-> <<"i", "n">>,
     one |-> <<"o", "n", "e">>,
     time |-> <<"t", "i", "m", "e">>,
     authentication |-> <<"a", "u", "t", "h", "e", "n", "t", "i", "c", "a", "t", "i", "o", "n">>,
     auth |-> <<"a", "u", "t", "h">>,
     twofa |-> <<"2", "f", "a">>,
     two |-> <<"t", "w", "o">>,
     factor |-> <<"f", "a", "c", "t", "o", "r">>,
     code |-> <<"c", "o", "d", "e">>,
     pin |-> <<"p", "i", "n">>,
     otp |-> <<"o", "t", "p">>,
     is |-> <<"i", "s">>,
     enter |-> <<"e", "n", "t", "e", "r">>,
     use |-> <<"u", "s", "e">>,
     input |-> <<"i", "n", "p", "u", "t">>,
     type |-> <<"t", "y", "p", "e">>,
     submit |-> <<"s", "u", "b", "m", "i", "t">>,
     the |-> <<"t", "h", "e">>,
     isYour |-> <<"i", "s", " ", "y", "o", "u", "r">>,
     isThe |-> <<"i", "s", " ", "t", "h", "e">>,
     verify |-> <<"v", "e", "r", "i", "f", "y">>,
     USD |-> <<"U", "S", "D">>,
     EUR |-> <<"E", "U", "R">>]

------------------------------------------------------------------------------
(* The regular expressions of extractVerificationCode.  A match is a record *)
(* [index, cap, capIdx, end]: the offset the match starts at, the text of   *)
(* capture group 1, its offset, and the offset the match ends at (the       *)
(* lastIndex a global expression continues from).  Each XAt(s, p) is the    *)
(* match the backtracking matcher finds when it starts at offset p.         *)

Match(p, s, c, n, e) ==
    [index |-> p, cap |-> Substring(s, c, c + n), capIdx |-> c, end |-> e]

\* A literal word under the i flag: the offsets it can end at.
Word(s, p, w) == IF LitAtI(s, p, w) THEN <<p + Len(w)>> ELSE <<>>

HyphenOrSpace == {"-", " "}

\* a[- ]?b under the i flag: the offsets it can end at, the greedy choice first.
Joined(s, p, a, b) ==
    IF ~LitAtI(s, p, a) THEN <<>>
    ELSE LET q == p + Len(a)
         IN  (IF At(s, q) \in HyphenOrSpace /\ LitAtI(s, q + 1, b)
                THEN <<q + 1 + Len(b)>> ELSE <<>>)
             \o Word(s, q, b)

\* (?:verification|security|confirm(?:ation)?|login|sign[- ]?in|one[- ]?time|
\*    auth(?:entication)?|2fa|two[- ]?factor)?
\* The offsets the optional qualifier can end at, in the order the matcher
\* tries them: each alternative in turn, then the empty match.
QualifierEnds(s, p) ==
    Word(s, p, Words.verification)
    \o Word(s, p, Words.security)
    \o Word(s, p, Words.confirmation)
    \o Word(s, p, Words.confirm)
    \o Word(s, p, Words.login)
    \o Joined(s, p, Words.sign, Words.in)
    \o Joined(s, p, Words.one, Words.time)
    \o Word(s, p, Words.authentication)
    \o Word(s, p, Words.auth)
    \o Word(s, p, Words.twofa)
    \o Joined(s, p, Words.two, Words.factor)
    \o <<p>>

\* (?:code|pin|otp)
KeywordEnds(s, p) ==
    Word(s, p, Words.code)
    \o Word(s, p, Words.pin)
    \o Word(s, p, Words.otp)

SeparatorChars == {":", "EM_DASH", "EN_DASH", "-", "="}

\* [:\s]
ColonOrSpace == SpaceChars \cup {":"}

\* (?:is|:|EM_DASH|EN_DASH|-|=)
SeparatorEnds(s, p) ==
    Word(s, p, Words.is)
    \o (IF At(s, p) \in SeparatorChars THEN <<p + 1>> ELSE <<>>)

\* CaptureAlnum with the quantifier {4,9}.
CaptureAlnumNine(s, p, c) ==
    LET n == RunLen(s, c, AlnumI, 9)
    IN  IF n >= 4 THEN Match(p, s, c, n, c + n) ELSE None

\* ([A-Z0-9]{4,8}) with nothing after it: the greedy run, of at most 8.
CaptureAlnum(s, p, c) ==
    LET n == RunLen(s, c, AlnumI, 8)
    IN  IF n >= 4 THEN Match(p, s, c, n, c + n) ELSE None

\* \s*(?:code|pin|otp)\s*(?:is|:|...|=)\s*[:\s]*([A-Z0-9]{4,8}) from offset q of
\* a match that started at p.  Every \s* and [:\s]* is followed by something
\* that starts with no character of its class, so only its greedy end can
\* lead to a match.
ExplicitTail(s, p, q) ==
    LET kw == KeywordEnds(s, SkipAll(s, q, SpaceChars))
    IN  IF kw = <<>> THEN None
        ELSE LET sep == SeparatorEnds(s, SkipAll(s, kw[1], SpaceChars))
             IN  IF sep = <<>> THEN None
                 ELSE CaptureAlnum(s, p,
                        SkipAll(s, SkipAll(s, sep[1], SpaceChars),
                                ColonOrSpace))

\* explicitPatterns[0] at offset p.
Explicit1At(s, p) ==
    LET ends == QualifierEnds(s, p)
    IN  FirstHit([i \in 1..Len(ends) |-> ExplicitTail(s, p, ends[i])])

\* (?:enter|use|input|type|submit)
VerbEnds(s, p) ==
    Word(s, p, Words.enter)
    \o Word(s, p, Words.use)
    \o Word(s, p, Words.input)
    \o Word(s, p, Words.type)
    \o Word(s, p, Words.submit)

\* w\s+ : the offset it ends at (greedy), or -1.
WordSpaces(s, p, w) ==
    IF LitAtI(s, p, w) /\ At(s, p + Len(w)) \in SpaceChars
    THEN SkipAll(s, p + Len(w), SpaceChars) ELSE -1

\* (?:code\s+)?([A-Z0-9]{4,8}) from offset q: with the optional group, then
\* without it.
CodeThenCapture(s, p, q) ==
    LET c == WordSpaces(s, q, Words.code)
    IN  FirstHit(<<IF c >= 0 THEN CaptureAlnum(s, p, c) ELSE None,
                   CaptureAlnum(s, p, q)>>)

\* explicitPatterns[1] at offset p:
\* (?:enter|use|input|type|submit)\s+(?:the\s+)?(?:code\s+)?([A-Z0-9]{4,8})
Explicit2At(s, p) ==
    LET verb == VerbEnds(s, p)
    IN  IF verb = <<>> \/ At(s, verb[1]) \notin SpaceChars THEN None
        ELSE LET q == SkipAll(s, verb[1], SpaceChars)
                 t == WordSpaces(s, q, Words.the)
             IN  FirstHit(<<IF t >= 0 THEN CodeThenCapture(s, p, t) ELSE None,
                            CodeThenCapture(s, p, q)>>)

\* explicitPatterns[2] at offset p: \b([0-9]{4,8})\b\s*(?:is your|is the)
\* The greedy run of digits is the only length the second \b can hold at.
Explicit3At(s, p) ==
    LET n == RunLen(s, p, Digits, 8)
        q == SkipAll(s, p + n, SpaceChars)
        e == Word(s, q, Words.isYour)
             \o Word(s, q, Words.isThe)
    IN  IF n >= 4 /\ WordBoundary(s, p) /\ WordBoundary(s, p + n) /\ e # <<>>
        THEN Match(p, s, p, n, e[1]) ELSE None

\* \s|> before the digits, and <|\. after them (\s and $ are tested first).
OpeningChars == SpaceChars \cup {">"}
ClosingChars == {"<", "."}

\* standalonePattern at offset p: (?:^|\s|>|\n)(\d{4,8})(?:\s|$|<|\n|\.) with
\* the m flag.  The digits start at p after ^ and at p + 1 after a consumed
\* delimiter; the closing delimiter is consumed unless it is $.
StandaloneFrom(s, p, d) ==
    LET n == RunLen(s, d, Digits, 8)
        c == At(s, d + n)
    IN  IF n < 4 THEN None
        ELSE IF c \in SpaceChars THEN Match(p, s, d, n, d + n + 1)
        ELSE IF d + n = Len(s) \/ c \in LineTerminators THEN Match(p, s, d, n, d + n)
        ELSE IF c \in ClosingChars THEN Match(p, s, d, n, d + n + 1)
        ELSE None

StandaloneAt(s, p) ==
    FirstHit(<<IF p = 0 \/ At(s, p - 1) \in LineTerminators
                 THEN StandaloneFrom(s, p, p) ELSE None,
               IF At(s, p) \in OpeningChars
                 THEN StandaloneFrom(s, p, p + 1) ELSE None>>)

\* alphanumPattern at offset p: \b([A-Z0-9]{6,8})\b, without the i flag.
AlphanumAt(s, p) ==
    LET n == RunLen(s, p, AlnumU, 8)
    IN  IF n >= 6 /\ WordBoundary(s, p) /\ WordBoundary(s, p + n)
        THEN Match(p, s, p, n, p + n) ELSE None

RegexAt(re, s, p) ==
    CASE re = "explicit1"  -> Explicit1At(s, p)
      [] re = "explicit2"  -> Explicit2At(s, p)
      [] re = "explicit3"  -> Explicit3At(s, p)
      [] re = "standalone" -> StandaloneAt(s, p)
      [] re = "alphanum"   -> AlphanumAt(s, p)

Min(S) == CHOOSE x \in S : \A y \in S : x <= y

\* re.exec(s) with re.lastIndex = from: the match at the first offset that has
\* one, or None.
Exec(re, s, from) ==
    Bind({RegexAt(re, s, p) : p \in from..Len(s)} \ {None}, LAMBDA hits :
        IF hits = {} THEN None
        ELSE CHOOSE m \in hits : \A o \in hits : m.index <= o.index)

\* The matches of a global expression's exec loop, from lastIndex = from.
RECURSIVE ExecAll(_, _, _)
ExecAll(re, s, from) ==
    Bind(Exec(re, s, from), LAMBDA m :
        IF m = None THEN <<>> ELSE <<m>> \o ExecAll(re, s, m.end))

------------------------------------------------------------------------------
(* isLikelyCode and extractVerificationCode                                  *)

DigitValue ==
    "0" :> 0 @@ "1" :> 1 @@ "2" :> 2 @@ "3" :> 3 @@ "4" :> 4 @@
    "5" :> 5 @@ "6" :> 6 @@ "7" :> 7 @@ "8" :> 8 @@ "9" :> 9

\* parseInt(numStr, 10) of a string of digits.
RECURSIVE ParseInt(_)
ParseInt(numStr) ==
    IF numStr = <<>> THEN 0
    ELSE 10 * ParseInt(SubSeq(numStr, 1, Len(numStr) - 1))
         + DigitValue[numStr[Len(numStr)]]

\* context.indexOf(numStr): the offset of the first occurrence, or -1.
RECURSIVE IndexOfFrom(_, _, _)
IndexOfFrom(context, w, p) ==
    IF p + Len(w) > Len(context) THEN -1
    ELSE IF LitAt(context, p, w) THEN p
    ELSE IndexOfFrom(context, w, p + 1)

IndexOf(context, w) == IndexOfFrom(context, w, 0)

\* /code|verify|confirm|otp|pin/i.test(context)
HasCodeContext(context) ==
    \E p \in 0..Len(context) :
        \/ LitAtI(context, p, Words.code)
        \/ LitAtI(context, p, Words.verify)
        \/ LitAtI(context, p, Words.confirm)
        \/ LitAtI(context, p, Words.otp)
        \/ LitAtI(context, p, Words.pin)

CurrencySymbols == {"$", "EURO", "POUND", "YEN"}

\* /\$|EURO|POUND|YEN|USD|EUR/.test(before)
HasCurrency(before) ==
    \E p \in 0..Len(before) :
        \/ At(before, p) \in CurrencySymbols
        \/ LitAt(before, p, Words.USD)
        \/ LitAt(before, p, Words.EUR)

\* /\.\d{2}/.test(after)
HasDecimals(after) ==
    \E p \in 0..Len(after) :
        At(after, p) = "." /\ At(after, p + 1) \in Digits /\ At(after, p + 2) \in Digits

\* The years the filter treats as years.
YearLow == 1900
YearHigh == 2099

\* How far before and after the number the amount filter looks.
Window == 5

\* isLikelyCode with the year filter rejecting whatever the context says.
isLikelyCodeAnyContext(numStr, context) ==
    LET num == ParseInt(numStr)
        idx == IndexOf(context, numStr)
        before == Substring(context, Max(0, idx - Window), idx)
        after == Substring(context, idx + Len(numStr), idx + Len(numStr) + Window)
    IN  IF Len(numStr) = 4 /\ num >= YearLow /\ num <= YearHigh
        THEN FALSE
        ELSE IF idx > 0 /\ (HasCurrency(before) \/ HasDecimals(after))
        THEN FALSE
        ELSE TRUE

isLikelyCode(numStr, context) ==
    LET num == ParseInt(numStr)
        idx == IndexOf(context, numStr)
        before == Substring(context, Max(0, idx - Window), idx)
        after == Substring(context, idx + Len(numStr), idx + Len(numStr) + Window)
    IN  IF Len(numStr) = 4 /\ num >= YearLow /\ num <= YearHigh
        THEN HasCodeContext(context)
        ELSE IF idx > 0 /\ (HasCurrency(before) \/ HasDecimals(after))
        THEN FALSE
        ELSE TRUE

\* const combined = `${subject} ${text}`
Combined(subj, txt) == subj \o <<" ">> \o txt

\* explicitPatterns with its first two entries exchanged.
explicitPatternsExchanged == <<"explicit2", "explicit1", "explicit3">>

\* The expressions of explicitPatterns, in the order of the array.
explicitPatterns == <<"explicit1", "explicit2", "explicit3">>

\* for (const pattern of explicitPatterns) ...: the first match[1] the loop
\* returns as a match record, or None when the loop ends.
RECURSIVE ExplicitLoop(_, _)
ExplicitLoop(combined, i) ==
    IF i > Len(explicitPatterns) THEN None
    ELSE Bind(Exec(explicitPatterns[i], combined, 0), LAMBDA m :
            IF m # None /\ m.cap # <<>> THEN m ELSE ExplicitLoop(combined, i + 1))

\* candidates.find((c) => c.length === n), Null for undefined.
RECURSIVE Find(_, _)
Find(cands, n) ==
    IF cands = <<>> THEN Null
    ELSE IF Len(Head(cands)) = n THEN Head(cands)
    ELSE Find(Tail(cands), n)

\* const preferred = find(6) || find(4) || candidates[0]
Preferred(cands) ==
    IF Find(cands, 6) # Null THEN Find(cands, 6)
    ELSE IF Find(cands, 4) # Null THEN Find(cands, 4)
    ELSE cands[1]

\* /[A-Z]/i.test(candidate) && /\d/.test(candidate)
IsMixed(candidate) ==
    /\ \E i \in 1..Len(candidate) : candidate[i] \in Letters
    /\ \E i \in 1..Len(candidate) : candidate[i] \in Digits

\* The while loop of Pattern 3: the first mixed token, or Null.
RECURSIVE AlphanumLoop(_)
AlphanumLoop(ms) ==
    IF ms = <<>> THEN Null
    ELSE IF IsMixed(Head(ms).cap) THEN Head(ms).cap
    ELSE AlphanumLoop(Tail(ms))

\* The captures of the matches the filter keeps: what candidates.push collects.
Keep(ms, combined) ==
    LET kept == SelectSeq(ms, LAMBDA m : isLikelyCode(m.cap, combined))
    IN  [i \in 1..Len(kept) |-> kept[i].cap]

\* One call of extractVerificationCode(text, subject): the return statement it
\* leaves by, its locals at that point, and the value returned.
extractVerificationCode(txt, subj) ==
    Bind(Combined(subj, txt), LAMBDA combined :
    Bind(ExplicitLoop(combined, 1), LAMBDA m1 :
        IF m1 # None
        THEN [pc |-> "retExplicit", match |-> m1, scanned |-> <<>>,
              candidates |-> <<>>, result |-> m1.cap]
        ELSE
    Bind(ExecAll("standalone", combined, 0), LAMBDA ms :
    Bind(Keep(ms, combined), LAMBDA cands :
        IF Len(cands) > 0
        THEN [pc |-> "retPreferred", match |-> None, scanned |-> ms,
              candidates |-> cands, result |-> Preferred(cands)]
        ELSE
    Bind(IF HasCodeContext(combined)
           THEN AlphanumLoop(ExecAll("alphanum", combined, 0)) ELSE Null,
         LAMBDA c3 :
        IF c3 # Null
        THEN [pc |-> "retAlphanum", match |-> None, scanned |-> ms,
              candidates |-> cands, result |-> c3]
        ELSE [pc |-> "retNull", match |-> None, scanned |-> ms,
              candidates |-> cands, result |-> Null])))))

------------------------------------------------------------------------------
(* The mails the extractor is run on: a subject from Subjects and a body put *)
(* together from at most MaxFrags fragments of Frags.                        *)

FragSpace   == <<" ">>
FragNewline == <<"\n">>
FragCode    == <<"c", "o", "d", "e", ":">>
FragUse     == <<"u", "s", "e", " ">>
FragIsYour  == <<" ", "i", "s", " ", "y", "o", "u", "r">>
FragYear    == <<"2", "0", "2", "4">>
FragFive    == <<"1", "2", "3", "4", "5">>
FragSix     == <<"2", "0", "4", "9", "1", "3">>
FragEight   == <<"1", "2", "3", "4", "5", "6", "7", "8">>
FragDollar  == <<"$">>
FragCents   == <<".", "0", "0">>
FragMixed   == <<"A", "1", "B", "2", "C", "3">>

Frags ==
    {FragSpace, FragNewline, FragCode, FragUse, FragIsYour,
     FragYear, FragFive, FragSix, FragEight, FragDollar, FragCents,
     FragMixed}

Subjects == {<<>>, FragSix, FragDollar \o FragSix}

MaxFrags == 3

RECURSIVE Flatten(_)
Flatten(fs) == IF fs = <<>> THEN <<>> ELSE Head(fs) \o Flatten(Tail(fs))

Bodies == {Flatten(fs) : fs \in UNION {[1..n -> Frags] : n \in 0..MaxFrags}}

------------------------------------------------------------------------------
(* The extractor's specification: one call on each mail.                     *)

InitExtract ==
    /\ subject \in Subjects
    /\ text \in Bodies
    /\ pc = "start"
    /\ match = None
    /\ scanned = <<>>
    /\ candidates = <<>>
    /\ result = Null
    /\ ClassifierIdle /\ ContentIdle /\ FetchIdle /\ PollingIdle

Extract ==
    /\ pc = "start"
    /\ \E r \in {extractVerificationCode(text, subject)} :
           /\ pc' = r.pc
           /\ match' = r.match
           /\ scanned' = r.scanned
           /\ candidates' = r.candidates
           /\ result' = r.result
    /\ UNCHANGED <<subject, text, classifierVars, contentVars, fetchVars,
                   pollingVars>>

NextExtract == Extract

SpecExtract == InitExtract /\ [][NextExtract]_vars

------------------------------------------------------------------------------
(* The field classifier of the content script.  An element of the page is a  *)
(* record of what the classifier reads of an input element:                 *)
(*   parent     its parentElement (a container number)                       *)
(*   type       its type property ("" when the attribute is absent)          *)
(*   disabled, readOnly, width, height (of getBoundingClientRect), display,  *)
(*   visibility, opacity (of getComputedStyle)                               *)
(*   maxLength, size, value   the properties of these names                  *)
(*   sel        the entries of CODE_FIELD_SELECTORS the element matches      *)

\* CODE_FIELD_SELECTORS.length
NumSelectors == 24

\* input[type="text"], input[type="number"], input[type="tel"], input:not([type])
TextTypes == {"text", "number", "tel", ""}

isVisibleInput(el) ==
    IF el.type = "hidden" \/ el.disabled \/ el.readOnly THEN FALSE
    ELSE IF el.width = 0 \/ el.height = 0 THEN FALSE
    ELSE el.display # "none" /\ el.visibility # "hidden" /\ el.opacity # "0"

\* rect.width < 300
SmallWidth == 300

hasSmallWidth(el) == el.width < SmallWidth

\* The places, in document order, of the elements of doc that satisfy Test.
Places(doc, Test(_)) == SelectSeq([i \in 1..Len(doc) |-> i], LAMBDA i : Test(doc[i]))

\* document.querySelector(CODE_FIELD_SELECTORS[k]): the first element in
\* document order that matches, or NoElement.
QuerySelector(doc, k) ==
    LET hits == Places(doc, LAMBDA el : k \in el.sel)
    IN  IF hits = <<>> THEN NoElement ELSE hits[1]

\* Strategy 1: the loop over CODE_FIELD_SELECTORS from entry k on.
RECURSIVE DirectMatch(_, _)
DirectMatch(doc, k) ==
    IF k > NumSelectors THEN NoElement
    ELSE LET el == QuerySelector(doc, k)
         IN  IF el # NoElement /\ isVisibleInput(doc[el]) THEN el
             ELSE DirectMatch(doc, k + 1)

\* The keys of a Map in insertion order: the values of ps without repeats, in
\* the order of their first occurrence.
RECURSIVE InsertionOrder(_)
InsertionOrder(ps) ==
    IF ps = <<>> THEN <<>>
    ELSE LET rest == InsertionOrder(SubSeq(ps, 1, Len(ps) - 1))
             last == ps[Len(ps)]
         IN  IF \E i \in 1..Len(rest) : rest[i] = last THEN rest
             ELSE Append(rest, last)

\* The smallest and largest group findSplitCodeInputs accepts.
MinSplit == 4
MaxSplit == 8

\* FirstGroup accepting groups of 3 to 9.
RECURSIVE FirstGroupWider(_)
FirstGroupWider(groups) ==
    IF groups = <<>> THEN Null
    ELSE IF Len(Head(groups)) >= MinSplit - 1 /\ Len(Head(groups)) <= MaxSplit + 1
    THEN Head(groups)
    ELSE FirstGroupWider(Tail(groups))

\* for (const [, inputs] of groups) ...: the first group of 4 to 8, or Null.
RECURSIVE FirstGroup(_)
FirstGroup(groups) ==
    IF groups = <<>> THEN Null
    ELSE IF Len(Head(groups)) >= MinSplit /\ Len(Head(groups)) <= MaxSplit
    THEN Head(groups)
    ELSE FirstGroup(Tail(groups))

findSplitCodeInputs(doc) ==
    LET visible == Places(doc, LAMBDA el : el.type \in TextTypes /\ isVisibleInput(el))
        single == SelectSeq(visible,
                    LAMBDA i : doc[i].maxLength = 1 \/ doc[i].size = 1)
        keys == InsertionOrder([j \in 1..Len(single) |-> doc[single[j]].parent])
        groups == [g \in 1..Len(keys) |->
                    SelectSeq(single, LAMBDA i : doc[i].parent = keys[g])]
    IN  FirstGroup(groups)

\* The largest maxLength and size Strategy 3 accepts.
ShortLength == 8

\* Strategy 3's loop: the first input that is visible, empty and short.
ContextMatch(doc) ==
    LET hits == Places(doc, LAMBDA el :
                    /\ el.type \in TextTypes
                    /\ isVisibleInput(el)
                    /\ el.value = ""
                    /\ (el.maxLength <= ShortLength \/ el.size <= ShortLength
                        \/ hasSmallWidth(el)))
    IN  IF hits = <<>> THEN NoElement ELSE hits[1]

\* findCodeField with Strategy 3 tried before Strategy 2.
findCodeFieldContextFirst(doc, hasContext, oldSplits) ==
    LET direct == DirectMatch(doc, 1)
        splits == findSplitCodeInputs(doc)
        ctx == ContextMatch(doc)
    IN  IF direct # NoElement
        THEN [cpc |-> "retDirect", field |-> direct, splitInputs |-> oldSplits]
        ELSE IF hasContext /\ ctx # NoElement
        THEN [cpc |-> "retContext", field |-> ctx, splitInputs |-> oldSplits]
        ELSE IF splits # Null
        THEN [cpc |-> "retSplit", field |-> splits[1], splitInputs |-> splits]
        ELSE [cpc |-> "retNull", field |-> NoElement, splitInputs |-> oldSplits]

\* One call of findCodeField(): the return statement it leaves by, the element
\* returned and the value of splitInputs after the call.
findCodeField(doc, hasContext, oldSplits) ==
    LET direct == DirectMatch(doc, 1)
        splits == findSplitCodeInputs(doc)
        ctx == ContextMatch(doc)
    IN  IF direct # NoElement
        THEN [cpc |-> "retDirect", field |-> direct, splitInputs |-> oldSplits]
        ELSE IF splits # Null
        THEN [cpc |-> "retSplit", field |-> splits[1], splitInputs |-> splits]
        ELSE IF hasContext /\ ctx # NoElement
        THEN [cpc |-> "retContext", field |-> ctx, splitInputs |-> oldSplits]
        ELSE [cpc |-> "retNull", field |-> NoElement, splitInputs |-> oldSplits]

------------------------------------------------------------------------------
(* The pages the classifier is run on: at most MaxRuns runs of like inputs,  *)
(* each run in one of the containers of Parents.                             *)

Plain ==
    [parent |-> 1, type |-> "text", disabled |-> FALSE, readOnly |-> FALSE,
     width |-> 300, height |-> 20, display |-> "block", visibility |-> "visible",
     opacity |-> "1", maxLength |-> -1, size |-> 20, value |-> "", sel |-> {}]

\* The kinds of input a page is made of.
KindBox      == [Plain EXCEPT !.maxLength = 1, !.width = 40]
KindSizeBox  == [Plain EXCEPT !.size = 1, !.type = "tel", !.width = 40]
KindGone     == [Plain EXCEPT !.maxLength = 1, !.display = "none"]
KindPassword == [Plain EXCEPT !.maxLength = 1, !.type = "password", !.width = 40]
KindMarked   == [Plain EXCEPT !.maxLength = 6, !.sel = {1, 3}]

Kinds == {KindBox, KindSizeBox, KindGone, KindPassword, KindMarked}

Parents == {1, 2}
MaxRuns == 3
RunLengths == {3, 4}

Runs == Parents \X Kinds \X RunLengths

RECURSIVE Expand(_)
Expand(rs) ==
    IF rs = <<>> THEN <<>>
    ELSE [i \in 1..Head(rs)[3] |-> [Head(rs)[2] EXCEPT !.parent = Head(rs)[1]]]
         \o Expand(Tail(rs))

Pages == {Expand(rs) : rs \in UNION {[1..n -> Runs] : n \in 0..MaxRuns}}

------------------------------------------------------------------------------
(* The classifier's specification: one call of findCodeField on each page.   *)

InitClassify ==
    /\ page \in Pages
    /\ pageContext \in BOOLEAN
    /\ cpc = "start"
    /\ splitInputs = Null
    /\ field = NoElement
    /\ ExtractorIdle /\ ContentIdle /\ FetchIdle /\ PollingIdle

Classify ==
    /\ cpc = "start"
    /\ \E r \in {findCodeField(page, pageContext, splitInputs)} :
           /\ cpc' = r.cpc
           /\ field' = r.field
           /\ splitInputs' = r.splitInputs
    /\ UNCHANGED <<page, pageContext, extractorVars, contentVars, fetchVars,
                   pollingVars>>

NextClassify == Classify

SpecClassify == InitClassify /\ [][NextClassify]_vars

------------------------------------------------------------------------------
(* The forms the three strategies are told apart on: at most MaxItems items, *)
(* each one input of container 1 or a row of four boxes in container 2.      *)
(* An input whose maxlength attribute is absent has maxLength -1, and one    *)
(* whose size attribute is absent has size 20 (the DOM's defaults, as in     *)
(* Plain).  Entries 2 and 3 of CODE_FIELD_SELECTORS are name*="otp" and      *)
(* name*="code".                                                             *)

InputKinds ==
    [otp     |-> [Plain EXCEPT !.sel = {2}],
     otpGone |-> [Plain EXCEPT !.sel = {2}, !.display = "none"],
     otpFlat |-> [Plain EXCEPT !.sel = {2}, !.width = 0],
     long    |-> [Plain EXCEPT !.maxLength = 20],
     filled  |-> [Plain EXCEPT !.maxLength = 6, !.value = "x"]]

Items ==
    {<<1, k, 1>> : k \in {InputKinds.otp, InputKinds.otpGone, InputKinds.otpFlat,
                          InputKinds.long, InputKinds.filled, KindMarked, Plain}}
    \cup {<<2, KindBox, 4>>}

MaxItems == 3

Forms == {Expand(rs) : rs \in UNION {[1..n -> Items] : n \in 0..MaxItems}}

InitScan ==
    /\ page \in Forms
    /\ pageContext \in BOOLEAN
    /\ cpc = "start"
    /\ splitInputs = Null
    /\ field = NoElement
    /\ ExtractorIdle /\ ContentIdle /\ FetchIdle /\ PollingIdle

SpecScan == InitScan /\ [][NextClassify]_vars

------------------------------------------------------------------------------
(* The content script on one tab.  The document is rendered anew at each    *)
(* visit (a navigation of the single-page application); an element is named *)
(* <<visit, place>>.  JavaScript runs each callback to completion: a         *)
(* mutation queues the callbacks of the two MutationObservers, which run, in *)
(* the order the observers were created, before any other task.  The         *)
(* background is the environment: it answers a CODE_FIELD_DETECTED message   *)
(* once and may send AUTOFILL_CODE and POLL_TIMEOUT messages afterwards.     *)

\* The elements of the document of visit v at the given places.
Handles(v, places) == [i \in 1..Len(places) |-> <<v, places[i]>>]

\* fillSingleInput(input, value): the value set and the events dispatched.
fillSingleInput(input, value) ==
    [input |-> input, value |-> value, events |-> <<"input", "change", "keyup">>]

\* fillSplitInputs with every input filled, the code repeated from its start.
fillSplitInputsAll(splits, code) ==
    [i \in 1..Len(splits) |->
        fillSingleInput(splits[i], <<code[((i - 1) % Len(code)) + 1]>>)]

\* splitInputs.forEach((input, i) => { if (i < chars.length) ... })
fillSplitInputs(splits, code) ==
    LET filled == SelectSeq([i \in 1..Len(splits) |-> i], LAMBDA i : i <= Len(code))
    IN  [j \in 1..Len(filled) |-> fillSingleInput(splits[filled[j]], <<code[filled[j]]>>)]

\* fillCode(code): the calls of fillSingleInput it makes, in order.
fillCode(splits, detected, code) ==
    IF splits # Null /\ Len(splits) > 0 THEN fillSplitInputs(splits, code)
    ELSE IF detected # Null THEN <<fillSingleInput(detected, code)>>
    ELSE <<>>

\* showToast appends the toast to document.body: a mutation both observers see.
Toast == <<"observer", "urlObserver">>

Urls == {1, 2}
MaxVisits == 2

\* The documents a visit can render.
Sites ==
    {<<>>, <<InputKinds.otp>>, Expand(<<<<1, KindBox, 4>>>>),
     Expand(<<<<1, KindBox, 6>>>>)}

\* The codes the background can answer with.
Codes == {FragYear, FragSix}

InitContent ==
    /\ page \in Sites
    /\ pageContext = FALSE /\ cpc = "start" /\ splitInputs = Null
    /\ field = NoElement
    /\ detectedField = Null /\ hasNotifiedBackground = FALSE
    /\ href = 1 /\ lastUrl = 1 /\ visit = 1
    /\ callbacks = <<"runDetection">>
    /\ inflight = {} /\ sent = <<>> /\ fills = NoFill /\ handled = <<>>
    /\ ExtractorIdle /\ FetchIdle /\ PollingIdle

\* runDetection with hasNotifiedBackground left as it was.
runDetectionForgetful ==
    \E r \in {findCodeField(page, pageContext, splitInputs)} :
        /\ splitInputs' = IF r.cpc = "retSplit" THEN Handles(visit, r.splitInputs)
                          ELSE splitInputs
        /\ IF r.field # NoElement /\ ~hasNotifiedBackground
           THEN /\ detectedField' = <<visit, r.field>>
                /\ hasNotifiedBackground' = hasNotifiedBackground
                /\ sent' = Append(sent, [e |-> "CODE_FIELD_DETECTED", visit |-> visit])
                /\ inflight' = inflight \cup {Len(sent) + 1}
                /\ callbacks' = Tail(callbacks) \o Toast
           ELSE /\ UNCHANGED <<detectedField, hasNotifiedBackground, sent, inflight>>
                /\ callbacks' = Tail(callbacks)

\* runDetection(), run as the callback at the head of the queue.
runDetection ==
    \E r \in {findCodeField(page, pageContext, splitInputs)} :
        /\ splitInputs' = IF r.cpc = "retSplit" THEN Handles(visit, r.splitInputs)
                          ELSE splitInputs
        /\ IF r.field # NoElement /\ ~hasNotifiedBackground
           THEN /\ detectedField' = <<visit, r.field>>
                /\ hasNotifiedBackground' = TRUE
                /\ sent' = Append(sent, [e |-> "CODE_FIELD_DETECTED", visit |-> visit])
                /\ inflight' = inflight \cup {Len(sent) + 1}
                /\ callbacks' = Tail(callbacks) \o Toast
           ELSE /\ UNCHANGED <<detectedField, hasNotifiedBackground, sent, inflight>>
                /\ callbacks' = Tail(callbacks)

\* What no step of the content script changes but a fill or a render.
ContentFrame ==
    /\ fills' = NoFill
    /\ UNCHANGED <<page, pageContext, cpc, field, href, visit, handled,
                   extractorVars, fetchVars, pollingVars>>

\* runDetection() on load (line 288).
Load ==
    /\ callbacks # <<>> /\ Head(callbacks) = "runDetection"
    /\ runDetection
    /\ UNCHANGED lastUrl
    /\ ContentFrame

\* The callback of observer: runDetection unless already notified.
Observer ==
    /\ callbacks # <<>> /\ Head(callbacks) = "observer"
    /\ IF ~hasNotifiedBackground THEN runDetection
       ELSE /\ callbacks' = Tail(callbacks)
            /\ UNCHANGED <<splitInputs, detectedField, hasNotifiedBackground,
                           sent, inflight>>
    /\ UNCHANGED lastUrl
    /\ ContentFrame

\* urlObserver that leaves splitInputs as it was.
UrlObserverKeepsSplit ==
    /\ callbacks # <<>> /\ Head(callbacks) = "urlObserver"
    /\ callbacks' = Tail(callbacks)
    /\ IF href # lastUrl
       THEN /\ lastUrl' = href
            /\ hasNotifiedBackground' = FALSE
            /\ detectedField' = Null
            /\ splitInputs' = splitInputs
            /\ sent' = Append(sent, [e |-> "reset", visit |-> visit])
       ELSE UNCHANGED <<lastUrl, hasNotifiedBackground, detectedField,
                        splitInputs, sent>>
    /\ UNCHANGED inflight
    /\ ContentFrame

\* The callback of urlObserver.
UrlObserver ==
    /\ callbacks # <<>> /\ Head(callbacks) = "urlObserver"
    /\ callbacks' = Tail(callbacks)
    /\ IF href # lastUrl
       THEN /\ lastUrl' = href
            /\ hasNotifiedBackground' = FALSE
            /\ detectedField' = Null
            /\ splitInputs' = Null
            /\ sent' = Append(sent, [e |-> "reset", visit |-> visit])
       ELSE UNCHANGED <<lastUrl, hasNotifiedBackground, detectedField,
                        splitInputs, sent>>
    /\ UNCHANGED inflight
    /\ ContentFrame

\* The places of sent that hold a CODE_FIELD_DETECTED message.
Notices == {n \in 1..Len(sent) : sent[n].e = "CODE_FIELD_DETECTED"}

\* What the content script leaves alone when it handles a response or message.
DeliverFrame ==
    UNCHANGED <<page, pageContext, cpc, field, splitInputs, detectedField,
                hasNotifiedBackground, href, lastUrl, visit, sent, handled,
                extractorVars, fetchVars, pollingVars>>

\* The callback of chrome.runtime.sendMessage for message n of sent: a
\* response with a code, one with polling set, or neither (or lastError).
Response ==
    /\ callbacks = <<>>
    /\ \E n \in inflight :
        /\ inflight' = inflight \ {n}
        /\ \/ \E code \in Codes :
                /\ fills' = [by |-> n, code |-> code,
                             done |-> fillCode(splitInputs, detectedField, code)]
                /\ callbacks' = Toast
           \/ fills' = NoFill /\ callbacks' = Toast
           \/ fills' = NoFill /\ callbacks' = <<>>
    /\ DeliverFrame

\* The onMessage listener, for a message the background sends for message n
\* of sent: AUTOFILL_CODE with a code, or POLL_TIMEOUT.
Message ==
    /\ callbacks = <<>>
    /\ \E n \in Notices :
        \/ \E code \in Codes :
                fills' = [by |-> n, code |-> code,
                          done |-> fillCode(splitInputs, detectedField, code)]
        \/ fills' = NoFill
    /\ callbacks' = Toast
    /\ UNCHANGED inflight
    /\ DeliverFrame

\* The application navigates: a new URL, and the document of the next visit.
Navigate ==
    /\ callbacks = <<>>
    /\ visit < MaxVisits
    /\ visit' = visit + 1
    /\ href' \in Urls \ {href}
    /\ page' \in Sites
    /\ callbacks' = <<"observer", "urlObserver">>
    /\ fills' = NoFill
    /\ UNCHANGED <<pageContext, cpc, field, splitInputs, detectedField,
                   hasNotifiedBackground, lastUrl, inflight, sent, handled,
                   extractorVars, fetchVars, pollingVars>>

\* A mutation inside or outside document.body that adds no input, or the
\* inputs of the visit arriving late in an empty document.
Mutate ==
    /\ callbacks = <<>>
    /\ callbacks' \in {<<"observer", "urlObserver">>, <<"urlObserver">>}
    /\ page' \in {page} \cup (IF page = <<>> THEN Sites ELSE {})
    /\ Head(callbacks') = "observer" \/ page' = page
    /\ fills' = NoFill
    /\ UNCHANGED <<pageContext, cpc, field, splitInputs, detectedField,
                   hasNotifiedBackground, href, lastUrl, visit, inflight, sent,
                   handled, extractorVars, fetchVars, pollingVars>>

NextContent ==
    \/ Load
    \/ Observer
    \/ UrlObserver
    \/ Response
    \/ Message
    \/ Navigate
    \/ Mutate

SpecContent == InitContent /\ [][NextContent]_vars

------------------------------------------------------------------------------
(* fetchLatestCode of the background script.  The identity and mail APIs     *)
(* are the environment: script holds the outcome of each call the function   *)
(* makes, in the order it makes them, and a call past its end succeeds.      *)
(* inbox is what the mail search answers, each mail as extractSubject and    *)
(* extractBodyText hand it to the extractor.                                 *)

\* gmailRequest: resolves, throws TOKEN_EXPIRED on 401 (after removing the
\* cached token), or throws another error.  getAuthToken resolves or rejects.
Outcomes == {"ok", "expired", "error"}

Outcome(faults, n) == IF n <= Len(faults) THEN faults[n] ELSE "ok"

FragLogin == <<"L", "o", "g", "i", "n">>
FragEmail == <<"E", "m", "a", "i", "l">>

Mails ==
    { [subject |-> FragLogin, body |-> FragCode \o FragSix],
      [subject |-> <<>>,      body |-> FragCode \o FragEight],
      [subject |-> FragLogin, body |-> FragYear] }

MaxMessages == 3
MaxFaults == 5

\* const code = extractVerificationCode(bodyText, subject), for each mail.
Extraction == [m \in Mails |-> extractVerificationCode(m.body, m.subject).result]

\* source: subject || 'Email'
Source(subj) == IF subj = <<>> THEN FragEmail ELSE subj

Resolved(r, log) == [result |-> r, fetched |-> log]

RECURSIVE fetchLatestCode(_, _, _, _)
RECURSIVE MessageLoop(_, _, _, _, _)
RECURSIVE MessageLoopLast(_, _, _, _, _)

\* catch (err), entered with the error of call n - 1; n is the next call.
Catch(msgs, faults, n, log, err) ==
    IF err = "expired"
    THEN IF Outcome(faults, n) = "ok"
         THEN fetchLatestCode(msgs, faults, n + 1, log)
         ELSE Resolved([success |-> FALSE, error |-> "Authentication expired"], log)
    ELSE Resolved([success |-> FALSE, error |-> "error"], log)

\* As MessageLoop, but the code of the first hit is replaced by a later one.
MessageLoopLast(msgs, faults, n, i, log) ==
    IF i > Len(msgs)
    THEN Resolved([success |-> TRUE, code |-> Null], log)
    ELSE IF Outcome(faults, n) # "ok"
    THEN Catch(msgs, faults, n + 1, log \o <<i>>, Outcome(faults, n))
    ELSE IF Extraction[msgs[i]] # Null
    THEN Bind(MessageLoopLast(msgs, faults, n + 1, i + 1, log \o <<i>>),
              LAMBDA later :
                  IF later.result.success /\ later.result.code = Null
                  THEN Resolved([success |-> TRUE, code |-> Extraction[msgs[i]],
                                 source |-> Source(msgs[i].subject)],
                                later.fetched)
                  ELSE later)
    ELSE MessageLoopLast(msgs, faults, n + 1, i + 1, log \o <<i>>)

\* for (const msg of messages), from message i on; n is the next call.
MessageLoop(msgs, faults, n, i, log) ==
    IF i > Len(msgs)
    THEN Resolved([success |-> TRUE, code |-> Null], log)
    ELSE IF Outcome(faults, n) # "ok"
    THEN Catch(msgs, faults, n + 1, log \o <<i>>, Outcome(faults, n))
    ELSE IF Extraction[msgs[i]] # Null
    THEN Resolved([success |-> TRUE, code |-> Extraction[msgs[i]],
                   source |-> Source(msgs[i].subject)], log \o <<i>>)
    ELSE MessageLoop(msgs, faults, n + 1, i + 1, log \o <<i>>)

\* One call of fetchLatestCode(), whose first API call is call n.  The log
\* gets a 0 for the call of searchVerificationEmails and i for the call of
\* getMessageContent on message i.
fetchLatestCode(msgs, faults, n, log) ==
    IF Outcome(faults, n) # "ok"
    THEN Resolved([success |-> FALSE, error |-> "Not authenticated"], log)
    ELSE IF Outcome(faults, n + 1) # "ok"
    THEN Catch(msgs, faults, n + 2, log \o <<0>>, Outcome(faults, n + 1))
    ELSE IF Len(msgs) = 0
    THEN Resolved([success |-> TRUE, code |-> Null], log \o <<0>>)
    ELSE MessageLoop(msgs, faults, n + 2, 1, log \o <<0>>)

Inboxes == UNION {[1..n -> Mails] : n \in 0..MaxMessages}
Scripts == UNION {[1..n -> Outcomes] : n \in 0..MaxFaults}

InitFetch ==
    /\ inbox \in Inboxes
    /\ script \in Scripts
    /\ fetched = <<>>
    /\ fetchResult = None
    /\ searches = 0
    /\ ExtractorIdle /\ ClassifierIdle /\ ContentIdle /\ PollingIdle

Fetch ==
    /\ fetchResult = None
    /\ \E r \in {fetchLatestCode(inbox, script, 1, <<>>)} :
        /\ fetchResult' = r.result
        /\ fetched' = SelectSeq(r.fetched, LAMBDA i : i # 0)
        /\ searches' = Len(SelectSeq(r.fetched, LAMBDA i : i = 0))
    /\ UNCHANGED <<inbox, script, extractorVars, classifierVars, contentVars,
                   pollingVars>>

NextFetch == Fetch

SpecFetch == InitFetch /\ [][NextFetch]_vars

------------------------------------------------------------------------------
(* The background worker: handleCodeFieldDetected, startPolling and the      *)
(* callback of its interval, stopPolling.  A call suspended in               *)
(* await fetchLatestCode() resumes in a later step with whatever the fetch   *)
(* resolved to; the timer fires whether or not earlier callbacks have        *)
(* resumed.                                                                  *)

interval == 3000
maxDuration == 60000

Tabs == {1, 2}
MaxDetections == 2
MaxInFlight == 2

\* What a call of fetchLatestCode can resolve to.
FetchResults ==
    { fetchLatestCode(msgs, faults, 1, <<>>).result :
        msgs \in {<<>>, <<[subject |-> FragLogin, body |-> FragCode \o FragSix]>>},
        faults \in {<<>>, <<"error">>, <<"ok", "error">>,
                    <<"ok", "expired", "error">>} }

HasCode(r) == r.success /\ r.code # Null

\* The suspended calls: <<"tick", id>> of interval id, <<"detect", t>> of the
\* handler called for tab t.
Continuations ==
    ({"tick"} \X (1..MaxDetections)) \cup ({"detect"} \X Tabs)

Suspended(kind) ==
    LET cs == {c \in Continuations : c[1] = kind}
        RECURSIVE Sum(_)
        Sum(S) == IF S = {} THEN 0
                  ELSE LET c == CHOOSE x \in S : TRUE
                       IN  awaiting[c] + Sum(S \ {c})
    IN  Sum(cs)

\* What a stored item reads as: an item never set reads as undefined.
Stored == {"true", "false", "undefined"}

InitPolling ==
    /\ isPolling = FALSE
    /\ pollIntervalId = 0
    /\ timers = <<>>
    /\ awaiting = [c \in Continuations |-> 0]
    /\ tabMessages = <<>>
    /\ responses = <<>>
    /\ storage \in [authenticated : {"undefined"}, enabled : Stored]
    /\ ExtractorIdle /\ ClassifierIdle /\ ContentIdle /\ FetchIdle

PollingFrame ==
    UNCHANGED <<extractorVars, classifierVars, contentVars, fetchVars, storage>>

\* clearInterval(pollIntervalId) within stopPolling, on the intervals ts.
Cleared(ts) ==
    IF pollIntervalId # 0
    THEN [ts EXCEPT ![pollIntervalId].active = FALSE]
    ELSE ts

\* stopPolling(), the intervals being ts when it is called.
stopPolling(ts) ==
    /\ timers' = Cleared(ts)
    /\ pollIntervalId' = 0
    /\ isPolling' = FALSE

\* As startPolling, without the test of isPolling.
startPollingAgain(tabId) ==
    /\ isPolling' = TRUE
    /\ timers' = Append(timers, [tab |-> tabId, elapsed |-> 0,
                                  active |-> TRUE, fetches |-> 0])
    /\ pollIntervalId' = Len(timers) + 1

\* startPolling(tabId)
startPolling(tabId) ==
    IF isPolling
    THEN UNCHANGED <<isPolling, pollIntervalId, timers>>
    ELSE /\ isPolling' = TRUE
         /\ timers' = Append(timers, [tab |-> tabId, elapsed |-> 0,
                                       active |-> TRUE, fetches |-> 0])
         /\ pollIntervalId' = Len(timers) + 1

\* As Detect, with the test !authenticated alone.
DetectLax(t) ==
    /\ Len(responses) + Suspended("detect") < MaxDetections
    /\ IF storage.authenticated # "true"
       THEN /\ responses' = Append(responses,
                   [tab |-> t,
                    result |-> [success |-> FALSE,
                                error |-> "Not authenticated or disabled"]])
            /\ UNCHANGED awaiting
       ELSE /\ awaiting' = [awaiting EXCEPT ![<<"detect", t>>] = @ + 1]
            /\ UNCHANGED responses
    /\ UNCHANGED <<isPolling, pollIntervalId, timers, tabMessages>>
    /\ PollingFrame

\* handleCodeFieldDetected, called for tab t, up to await fetchLatestCode().
Detect(t) ==
    /\ Len(responses) + Suspended("detect") < MaxDetections
    /\ IF storage.authenticated # "true" \/ storage.enabled = "false"
       THEN /\ responses' = Append(responses,
                   [tab |-> t,
                    result |-> [success |-> FALSE,
                                error |-> "Not authenticated or disabled"]])
            /\ UNCHANGED awaiting
       ELSE /\ awaiting' = [awaiting EXCEPT ![<<"detect", t>>] = @ + 1]
            /\ UNCHANGED responses
    /\ UNCHANGED <<isPolling, pollIntervalId, timers, tabMessages>>
    /\ PollingFrame

\* handleCodeFieldDetected from the point where its fetch has resolved to r.
DetectDone(t, r) ==
    /\ awaiting[<<"detect", t>>] > 0
    /\ awaiting' = [awaiting EXCEPT ![<<"detect", t>>] = @ - 1]
    /\ IF HasCode(r)
       THEN /\ tabMessages' = Append(tabMessages,
                   [tab |-> t, type |-> "AUTOFILL_CODE", code |-> r.code,
                    source |-> r.source, by |-> 0])
            /\ responses' = Append(responses, [tab |-> t, result |-> r])
            /\ UNCHANGED <<isPolling, pollIntervalId, timers>>
       ELSE /\ startPolling(t)
            /\ responses' = Append(responses,
                   [tab |-> t,
                    result |-> [success |-> TRUE, code |-> Null,
                                polling |-> TRUE]])
            /\ UNCHANGED tabMessages
    /\ PollingFrame

\* As Tick, with the test elapsed >= maxDuration.
TickEarly(id) ==
    /\ id \in 1..Len(timers)
    /\ timers[id].active
    /\ \E ts \in {[timers EXCEPT ![id].elapsed = @ + interval]} :
        IF ts[id].elapsed >= maxDuration
        THEN /\ stopPolling(ts)
             /\ tabMessages' = Append(tabMessages,
                   [tab |-> ts[id].tab, type |-> "POLL_TIMEOUT", code |-> Null,
                    source |-> Null, by |-> id])
             /\ UNCHANGED awaiting
        ELSE /\ Suspended("tick") < MaxInFlight
             /\ timers' = [ts EXCEPT ![id].fetches = @ + 1]
             /\ awaiting' = [awaiting EXCEPT ![<<"tick", id>>] = @ + 1]
             /\ UNCHANGED <<isPolling, pollIntervalId, tabMessages>>
    /\ UNCHANGED responses
    /\ PollingFrame

\* The callback of interval id, up to its return or await fetchLatestCode().
Tick(id) ==
    /\ id \in 1..Len(timers)
    /\ timers[id].active
    /\ \E ts \in {[timers EXCEPT ![id].elapsed = @ + interval]} :
        IF ts[id].elapsed > maxDuration
        THEN /\ stopPolling(ts)
             /\ tabMessages' = Append(tabMessages,
                   [tab |-> ts[id].tab, type |-> "POLL_TIMEOUT", code |-> Null,
                    source |-> Null, by |-> id])
             /\ UNCHANGED awaiting
        ELSE /\ Suspended("tick") < MaxInFlight
             /\ timers' = [ts EXCEPT ![id].fetches = @ + 1]
             /\ awaiting' = [awaiting EXCEPT ![<<"tick", id>>] = @ + 1]
             /\ UNCHANGED <<isPolling, pollIntervalId, tabMessages>>
    /\ UNCHANGED responses
    /\ PollingFrame

\* The callback of interval id from the point where its fetch has resolved to r.
TickDone(id, r) ==
    /\ awaiting[<<"tick", id>>] > 0
    /\ awaiting' = [awaiting EXCEPT ![<<"tick", id>>] = @ - 1]
    /\ IF HasCode(r)
       THEN /\ stopPolling(timers)
            /\ tabMessages' = Append(tabMessages,
                   [tab |-> timers[id].tab, type |-> "AUTOFILL_CODE",
                    code |-> r.code, source |-> r.source, by |-> id])
       ELSE UNCHANGED <<isPolling, pollIntervalId, timers, tabMessages>>
    /\ UNCHANGED responses
    /\ PollingFrame

\* handleLogin, when the token and the profile are obtained.
Login ==
    /\ storage.authenticated # "true"
    /\ storage' = [storage EXCEPT !.authenticated = "true"]
    /\ UNCHANGED <<isPolling, pollIntervalId, timers, awaiting, tabMessages,
                   responses, extractorVars, classifierVars, contentVars,
                   fetchVars>>

\* handleLogout
Logout ==
    /\ storage.authenticated # "false"
    /\ storage' = [storage EXCEPT !.authenticated = "false"]
    /\ UNCHANGED <<isPolling, pollIntervalId, timers, awaiting, tabMessages,
                   responses, extractorVars, classifierVars, contentVars,
                   fetchVars>>

NextPolling ==
    \/ Login
    \/ Logout
    \/ \E t \in Tabs : Detect(t)
    \/ \E t \in Tabs, r \in FetchResults : DetectDone(t, r)
    \/ \E id \in 1..MaxDetections : Tick(id)
    \/ \E id \in 1..MaxDetections, r \in FetchResults : TickDone(id, r)

SpecPolling == InitPolling /\ [][NextPolling]_vars

\* The worker when the timer keeps firing while an interval is set and every
\* fetch resolves: no step of these kinds stays possible for ever untaken.
SpecPollingFair ==
    /\ SpecPolling
    /\ WF_vars(\E id \in 1..MaxDetections : Tick(id))
    /\ WF_vars(\E id \in 1..MaxDetections, r \in FetchResults : TickDone(id, r))
    /\ WF_vars(\E t \in Tabs, r \in FetchResults : DetectDone(t, r))

------------------------------------------------------------------------------
(* The content script of tab 1 and the background worker together: the       *)
(* worker handles the CODE_FIELD_DETECTED messages the page sends, and the   *)
(* page handles the worker's responses and tab messages, each once, in any   *)
(* order relative to each other.                                             *)

InitAutofill ==
    /\ page \in Sites
    /\ pageContext = FALSE /\ cpc = "start" /\ splitInputs = Null
    /\ field = NoElement
    /\ detectedField = Null /\ hasNotifiedBackground = FALSE
    /\ href = 1 /\ lastUrl = 1 /\ visit = 1
    /\ callbacks = <<"runDetection">>
    /\ inflight = {} /\ sent = <<>> /\ fills = NoFill /\ handled = <<>>
    /\ isPolling = FALSE /\ pollIntervalId = 0 /\ timers = <<>>
    /\ awaiting = [c \in Continuations |-> 0]
    /\ tabMessages = <<>> /\ responses = <<>>
    /\ storage \in [authenticated : {"true"}, enabled : Stored]
    /\ ExtractorIdle /\ FetchIdle

\* The worker's onMessage listener calls the handler for a message of the page.
Receive ==
    /\ Cardinality(Notices) > Len(responses) + Suspended("detect")
    /\ Detect(1)

\* The callback of chrome.runtime.sendMessage, called with the response the
\* worker gave to message n of sent.
Answer ==
    /\ callbacks = <<>>
    /\ \E n \in inflight :
        \E k \in {Cardinality({m \in Notices : m <= n})} :
            /\ k <= Len(responses)
            /\ inflight' = inflight \ {n}
            /\ \E r \in {responses[k].result} :
                IF "code" \in DOMAIN r /\ r.code # Null
                THEN /\ fills' = [by |-> n, code |-> r.code,
                                  done |-> fillCode(splitInputs, detectedField,
                                                    r.code)]
                     /\ callbacks' = Toast
                ELSE /\ fills' = NoFill
                     /\ callbacks' = IF "polling" \in DOMAIN r THEN Toast
                                     ELSE <<>>
    /\ handled' = Append(handled, [via |-> "response", fill |-> fills'])
    /\ UNCHANGED <<page, pageContext, cpc, field, splitInputs, detectedField,
                   hasNotifiedBackground, href, lastUrl, visit, sent,
                   extractorVars, fetchVars, pollingVars>>

\* The page's onMessage listener, called with the next tab message.
Deliver ==
    /\ callbacks = <<>>
    /\ \E k \in {Len(SelectSeq(handled, LAMBDA h : h.via = "message")) + 1} :
        /\ k <= Len(tabMessages)
        /\ fills' = IF tabMessages[k].type = "AUTOFILL_CODE"
                       /\ tabMessages[k].code # Null
                    THEN [by |-> Len(sent), code |-> tabMessages[k].code,
                          done |-> fillCode(splitInputs, detectedField,
                                            tabMessages[k].code)]
                    ELSE NoFill
    /\ callbacks' = Toast
    /\ handled' = Append(handled, [via |-> "message", fill |-> fills'])
    /\ UNCHANGED <<page, pageContext, cpc, field, splitInputs, detectedField,
                   hasNotifiedBackground, href, lastUrl, visit, sent, inflight,
                   extractorVars, fetchVars, pollingVars>>

NextAutofill ==
    \/ Load
    \/ Observer
    \/ UrlObserver
    \/ Receive
    \/ \E r \in FetchResults : DetectDone(1, r)
    \/ \E id \in 1..MaxDetections : Tick(id)
    \/ \E id \in 1..MaxDetections, r \in FetchResults : TickDone(id, r)
    \/ Answer
    \/ Deliver

SpecAutofill == InitAutofill /\ [][NextAutofill]_vars

------------------------------------------------------------------------------
(* Properties of the extractor                                               *)

combined == Combined(subject, text)

Returned == pc \in {"retExplicit", "retPreferred", "retAlphanum", "retNull"}

\* The call went past Tier A, so scanned and candidates are those of Tier B.
PastTierA == pc \in {"retPreferred", "retAlphanum", "retNull"}

Range(f) == {f[i] : i \in DOMAIN f}

\* The match of the k-th phrase template of section 4.2, on the whole text.
TemplateMatch(k) ==
    Exec(<<"explicit1", "explicit2", "explicit3">>[k], combined, 0)

\* What Tier B would return if it were consulted.
TierBChoice ==
    LET cands == Keep(ExecAll("standalone", combined, 0), combined)
    IN  IF cands = <<>> THEN Null ELSE Preferred(cands)

\* C1: if any explicit-callout template matches the combined text, the call
\* returns through the Tier A return statement with the value captured by the
\* first template, in list order, that matches, whatever Tier B or Tier C
\* would have found in the same text.
C1_FirstTemplateWins ==
    Returned =>
        \A k \in 1..3 :
            (TemplateMatch(k) # None /\ \A j \in 1..(k - 1) : TemplateMatch(j) = None)
                => pc = "retExplicit" /\ result = TemplateMatch(k).cap

\* C1 witness: a callout is returned although the text also holds a standalone
\* number that Tier B would have chosen, and it differs from the callout.
C1_Witness ==
    /\ pc = "retExplicit"
    /\ TierBChoice # Null
    /\ TierBChoice # result

\* C2 (as claimed): among the survivors the choice is the leftmost 6-digit one,
\* else the leftmost 4-digit one, else the leftmost 8-digit one, else the
\* first survivor.
ClaimedPreferred(cands) ==
    IF Find(cands, 6) # Null THEN Find(cands, 6)
    ELSE IF Find(cands, 4) # Null THEN Find(cands, 4)
    ELSE IF Find(cands, 8) # Null THEN Find(cands, 8)
    ELSE cands[1]

C2_LengthPreference ==
    (PastTierA /\ candidates # <<>>) => result = ClaimedPreferred(candidates)

\* A run of 4 to 8 digits that starts at offset d and is bounded on both sides
\* by whitespace, the start or end of a line, or the punctuation the pattern
\* names (> before, < or . after).
BoundedRun(s, d) ==
    /\ At(s, d) \in Digits
    /\ d = 0 \/ At(s, d - 1) \in OpeningChars
    /\ LET n == RunLen(s, d, Digits, 9)
           c == At(s, d + n)
       IN  /\ n >= 4 /\ n <= 8
           /\ d + n = Len(s) \/ c \in SpaceChars \/ c \in ClosingChars

\* C3 (as claimed): every bounded run of 4 to 8 digits is scanned by Tier B,
\* whatever single delimiter separates two neighbouring runs.
C3_EveryRunScanned ==
    PastTierA =>
        \A d \in 0..(Len(combined) - 1) :
            BoundedRun(combined, d) =>
                \E i \in 1..Len(scanned) : scanned[i].capIdx = d

\* A 4-digit number in 1900..2099.
YearLike(num) == Len(num) = 4 /\ ParseInt(num) >= 1900 /\ ParseInt(num) <= 2099

\* The occurrence of length n at offset d has a currency marker in the 5
\* characters before it or a two-decimal suffix in the 5 characters after it.
AmountAt(s, d, n) ==
    \/ HasCurrency(Substring(s, Max(0, d - 5), d))
    \/ HasDecimals(Substring(s, d + n, d + n + 5))

\* Some occurrence of num in s looks like an amount.
AmountSomewhere(s, num) ==
    \E d \in 0..(Len(s) - Len(num)) :
        LitAt(s, d, num) /\ AmountAt(s, d, Len(num))

\* C4: a year-like Tier B match is kept exactly when the combined text holds
\* one of the keywords code, verify, confirm, otp, pin; a match that is not
\* year-like is never rejected for want of a keyword: when it is rejected,
\* the number stands next to an amount marker somewhere in the text.
C4_YearFilter ==
    PastTierA =>
        \A i \in 1..Len(scanned) :
            LET num == scanned[i].cap
                kept == num \in Range(candidates)
            IN  /\ YearLike(num) => (kept <=> HasCodeContext(combined))
                /\ (~YearLike(num) /\ ~kept) => AmountSomewhere(combined, num)

\* C4 witness: a year-like number is returned by Tier B because a keyword is
\* in the text.
C4_Witness ==
    /\ pc = "retPreferred"
    /\ YearLike(result)
    /\ HasCodeContext(combined)

\* How often num is among the candidates, and how often it was scanned at a
\* place that does, or does not, look like an amount.
Kept(num) == Cardinality({j \in 1..Len(candidates) : candidates[j] = num})

ScannedClean(num) ==
    Cardinality({i \in 1..Len(scanned) :
        /\ scanned[i].cap = num
        /\ ~AmountAt(combined, scanned[i].capIdx, Len(num))})

\* C5 (as claimed): a Tier B match with a currency marker within 5 characters
\* before it or a two-decimal suffix within 5 characters after it is never
\* kept: a number is among the candidates at most as often as it was scanned
\* at a place without such a marker.
C5_AmountsRejected ==
    PastTierA =>
        \A i \in 1..Len(scanned) :
            Kept(scanned[i].cap) <= ScannedClean(scanned[i].cap)

\* C6 (as claimed): a Tier B match that is not year-like and has no amount
\* marker around its own occurrence is kept, wherever else the same digits
\* occur: a number is among the candidates at least as often as it was scanned
\* at a place without a marker.
C6_FilterPerOccurrence ==
    PastTierA =>
        \A i \in 1..Len(scanned) :
            ~YearLike(scanned[i].cap)
                => Kept(scanned[i].cap) >= ScannedClean(scanned[i].cap)

\* A token of 6 to 8 letters and digits, of either case, between two word
\* boundaries, that holds a letter and a digit.
MixedTokenAt(s, p) ==
    LET n == RunLen(s, p, AlnumI, 9)
    IN  /\ n >= 6 /\ n <= 8
        /\ WordBoundary(s, p) /\ WordBoundary(s, p + n)
        /\ IsMixed(Substring(s, p, p + n))

ClaimedTierC(s) ==
    LET at == {p \in 0..(Len(s) - 1) : MixedTokenAt(s, p)}
    IN  IF ~HasCodeContext(s) \/ at = {} THEN Null
        ELSE Substring(s, Min(at), Min(at) + RunLen(s, Min(at), AlnumI, 9))

\* C7 (as claimed): when Tiers A and B found nothing, the call returns none if
\* no keyword is in the text, and otherwise the first 6 to 8 character
\* alphanumeric token between word boundaries that holds a letter and a digit
\* (none if there is no such token).
C7_TierC ==
    pc \in {"retAlphanum", "retNull"} => result = ClaimedTierC(combined)

\* C8: the value returned is none, or 4 to 8 letters and digits that stand
\* contiguously in subject + " " + body.
C8_ResultShape ==
    Returned =>
        \/ result = Null
        \/ /\ Len(result) >= 4 /\ Len(result) <= 8
           /\ \A i \in 1..Len(result) : result[i] \in AlnumI
           /\ \E p \in 0..Len(combined) : LitAt(combined, p, result)

\* C8 witness: a code of the full 8 characters is returned.
C8_Witness == Returned /\ result # Null /\ Len(result) = 8

\* C9 (as claimed): the value Tier A returns is a whole alphanumeric run: the
\* character after the capture is no letter or digit.
C9_WholeRun ==
    pc = "retExplicit" => At(combined, match.capIdx + Len(match.cap)) \notin AlnumI

------------------------------------------------------------------------------
(* Properties of the classifier                                              *)

\* A visible text-capable input of single-character capacity.
SingleBox(el) ==
    /\ el.type \in TextTypes
    /\ isVisibleInput(el)
    /\ el.maxLength = 1 \/ el.size = 1

\* The single-character inputs of container c, in document order.
BoxesOf(c) == Places(page, LAMBDA el : SingleBox(el) /\ el.parent = c)

\* The place of the first single-character input of container c.
FirstBoxOf(c) == BoxesOf(c)[1]

Qualifies(c) == Len(BoxesOf(c)) >= 4 /\ Len(BoxesOf(c)) <= 8

\* C10: when findCodeField leaves by the segmented-group return, the group
\* recorded has 4 to 8 members; they are exactly the visible single-character
\* inputs of one container, in document order; no container whose first such
\* input stands earlier in the document holds 4 to 8 of them; the element
\* returned is the group's first; and so a container holding exactly 3 or
\* exactly 9 of them is never the group.
C10_SegmentedGroup ==
    cpc = "retSplit" =>
        /\ Len(splitInputs) >= 4 /\ Len(splitInputs) <= 8
        /\ \E c \in Parents :
            /\ splitInputs = BoxesOf(c)
            /\ \A d \in Parents :
                (Qualifies(d) /\ d # c) => FirstBoxOf(c) < FirstBoxOf(d)
            /\ Len(BoxesOf(c)) \notin {3, 9}
        /\ \A i \in 1..(Len(splitInputs) - 1) : splitInputs[i] < splitInputs[i + 1]
        /\ field = splitInputs[1]

\* C10 witness: a group is returned although a container whose inputs start
\* earlier holds exactly 3 single-character inputs, or more than 8.
C10_Witness ==
    /\ cpc = "retSplit"
    /\ \E d \in Parents :
        /\ BoxesOf(d) # <<>>
        /\ BoxesOf(d)[1] < splitInputs[1]
        /\ Len(BoxesOf(d)) = 3 \/ Len(BoxesOf(d)) > 8

\* The visible elements of the page that entry k of CODE_FIELD_SELECTORS
\* matches, in document order.
VisibleMatches(k) == Places(page, LAMBDA el : k \in el.sel /\ isVisibleInput(el))

\* What Tier 1 yields as claimed: the first visible element matching the
\* earliest entry that has a visible matching element.
ClaimedDirect ==
    LET ks == {k \in 1..NumSelectors : VisibleMatches(k) # <<>>}
    IN  IF ks = {} THEN NoElement ELSE VisibleMatches(Min(ks))[1]

\* C11 (as claimed): findCodeField leaves by Strategy 1 exactly when some
\* visible element matches some entry of CODE_FIELD_SELECTORS, and then with
\* the first visible element matching the earliest such entry: a hidden
\* element matching an entry does not keep a later visible element matching
\* the same entry from being returned.
C11_FirstVisibleMatch ==
    cpc # "start" =>
        IF ClaimedDirect = NoElement THEN cpc # "retDirect"
        ELSE cpc = "retDirect" /\ field = ClaimedDirect

\* Strategy 1 found a visible match: for some entry, the element
\* querySelector returns is visible.
DirectFound ==
    \E k \in 1..NumSelectors :
        /\ QuerySelector(page, k) # NoElement
        /\ isVisibleInput(page[QuerySelector(page, k)])

\* The tier that answers when the tiers are tried strictly in order.
TierInOrder ==
    IF DirectFound THEN "retDirect"
    ELSE IF \E c \in Parents : Qualifies(c) THEN "retSplit"
    ELSE IF pageContext /\ ContextMatch(page) # NoElement THEN "retContext"
    ELSE "retNull"

\* C12: findCodeField leaves by the segmented return only when Strategy 1
\* found no visible match, by the contextual return only when Strategies 1
\* and 2 found nothing, and with null only when all three fail; whatever it
\* returns is visible, so an input that matches an entry of
\* CODE_FIELD_SELECTORS but has no width, no height or display:none is never
\* returned and the call goes on to the next strategies.
C12_TiersInOrder ==
    cpc # "start" =>
        /\ cpc = TierInOrder
        /\ field # NoElement => isVisibleInput(page[field])
        /\ field = NoElement <=> cpc = "retNull"

\* C12 witness: the page holds an input that matches an entry but is not
\* rendered, and the call went on to return a segmented group.
C12_Witness ==
    /\ cpc = "retSplit"
    /\ \E i \in 1..Len(page) :
        /\ page[i].sel # {}
        /\ page[i].width = 0 \/ page[i].display = "none"

\* The three signals as claimed: a declared max length of at most 8, a
\* declared size of at most 8 (an undeclared size reads 20), or a rendered
\* width below 300.
ClaimedShort(el) ==
    \/ el.maxLength >= 0 /\ el.maxLength <= 8
    \/ el.size <= 8
    \/ el.width < 300

ClaimedContext ==
    LET hits == Places(page, LAMBDA el :
                    /\ el.type \in TextTypes /\ isVisibleInput(el)
                    /\ el.value = "" /\ ClaimedShort(el))
    IN  IF ~pageContext \/ hits = <<>> THEN NoElement ELSE hits[1]

\* C13 (as claimed): when Strategies 1 and 2 found nothing, the call returns
\* null if no context pattern matches the page text and otherwise the first
\* visible, empty text, number, tel or untyped input with one of the three
\* signals; an input with no declared max length, a size above 8 and a width
\* of 300 or more is never returned by Strategy 3.
C13_ContextFallback ==
    cpc \in {"retContext", "retNull"} => field = ClaimedContext

\* C14 (as claimed): a call of findCodeField changes none of detectedField,
\* hasNotifiedBackground and splitInputs, whichever return it leaves by.
C14_ClassifierPure ==
    [][(cpc = "start" /\ cpc' # "start")
        => UNCHANGED <<detectedField, hasNotifiedBackground, splitInputs>>]_vars

------------------------------------------------------------------------------
(* Properties of the content script                                          *)

\* The step just taken called fillCode.
Filled == fills.by # 0

\* C15: a call of fillCode while a segmented group is recorded fills the
\* group and nothing else: sub-input i gets character i of the code, in
\* order, for every i up to the shorter of the code and the group, each with
\* the events of fillSingleInput; the sub-inputs past the end of the code get
\* no value and no event; and detectedField is not filled with the whole code.
C15_SegmentedFill ==
    [][(fills'.by # 0 /\ splitInputs # Null /\ Len(splitInputs) > 0) =>
        LET code == fills'.code
            done == fills'.done
        IN  /\ Len(done) = IF Len(code) < Len(splitInputs) THEN Len(code)
                           ELSE Len(splitInputs)
            /\ \A i \in 1..Len(done) :
                /\ done[i].input = splitInputs[i]
                /\ done[i].value = <<code[i]>>
                /\ done[i].events = <<"input", "change", "keyup">>
            /\ \A i \in (Len(code) + 1)..Len(splitInputs) :
                \A j \in 1..Len(done) : done[j].input # splitInputs[i]]_vars

\* C15 witness: a code shorter than the recorded group has just been filled.
C15_Witness ==
    /\ Filled
    /\ splitInputs # Null
    /\ fills.done # <<>>
    /\ Len(fills.code) < Len(splitInputs)

\* C18 (as claimed): an element filled in answer to a CODE_FIELD_DETECTED
\* message is an element of the document that message was sent for, never a
\* field detected on a page rendered after the reset that followed.
C18_StaleDiscarded ==
    Filled =>
        \A i \in 1..Len(fills.done) :
            fills.done[i].input[1] = sent[fills.by].visit

\* C19: between two CODE_FIELD_DETECTED messages of the log there is a reset.
C19_OneNoticePerReset ==
    \A i, j \in Notices :
        i < j => \E k \in (i + 1)..(j - 1) : sent[k].e = "reset"

\* C19 witness: the observer's callback is about to run with a code field
\* on the page and the background already notified, after an earlier reset.
C19_Witness ==
    /\ callbacks # <<>> /\ Head(callbacks) = "observer"
    /\ hasNotifiedBackground
    /\ findCodeField(page, pageContext, splitInputs).field # NoElement
    /\ \E k \in 1..Len(sent) : sent[k].e = "reset"
    /\ Cardinality(Notices) = 2

\* C20: the callback of urlObserver, when location.href differs from lastUrl,
\* sets lastUrl to it, hasNotifiedBackground to false and detectedField and
\* splitInputs to null, and changes none of the four otherwise.
C20_ResetOnNavigation ==
    [][(callbacks # <<>> /\ Head(callbacks) = "urlObserver") =>
        IF href # lastUrl
        THEN /\ lastUrl' = href
             /\ hasNotifiedBackground' = FALSE
             /\ detectedField' = Null
             /\ splitInputs' = Null
        ELSE UNCHANGED <<lastUrl, hasNotifiedBackground, detectedField,
                         splitInputs>>]_vars

\* C20 witness: a reset has cleared a recorded group, and a later scan has
\* detected and notified again.
C20_Witness ==
    /\ Len(sent) = 3
    /\ sent[1].e = "CODE_FIELD_DETECTED"
    /\ sent[2].e = "reset"
    /\ sent[3].e = "CODE_FIELD_DETECTED"
    /\ sent[3].visit # sent[1].visit
    /\ lastUrl = href

------------------------------------------------------------------------------
(* Properties of fetchLatestCode                                             *)

\* The messages of the inbox the extractor finds a code in.
Hits == {i \in 1..Len(inbox) : Extraction[inbox[i]] # Null}

FirstCode == Min(Hits)

FoundCode == fetchResult # None /\ fetchResult.success /\ fetchResult.code # Null

\* The contents are requested in the order of the search result: each request
\* is for the message after the one before, or, after a retry, for the first;
\* and none is for a message after the first one that yields a code.
InOrder ==
    /\ \A p \in 1..Len(fetched) :
        \/ fetched[p] = 1
        \/ p > 1 /\ fetched[p] = fetched[p - 1] + 1
    /\ \A p \in 1..Len(fetched) : Hits # {} => fetched[p] <= FirstCode

\* C16 (as claimed): what is returned with a code is that code and the
\* subject of its message.
C16_CodeAndSubject ==
    FoundCode =>
        /\ fetchResult.code = Extraction[inbox[FirstCode]]
        /\ fetchResult.source = inbox[FirstCode].subject

\* C16 (amended): fetchLatestCode requests the contents in the given order and
\* none after the first message that yields a code; it returns that message's
\* code with, as source, its subject, or 'Email' when the subject is empty;
\* and it returns code null only when every message yields none.
C16_FirstCodeWins ==
    /\ InOrder
    /\ FoundCode =>
        /\ Hits # {}
        /\ fetched[Len(fetched)] = FirstCode
        /\ fetchResult.code = Extraction[inbox[FirstCode]]
        /\ fetchResult.source = IF inbox[FirstCode].subject = <<>>
                                 THEN FragEmail ELSE inbox[FirstCode].subject
    /\ (fetchResult # None /\ fetchResult.success /\ fetchResult.code = Null)
        => Hits = {}

\* C16 witness: a code returned from the second message, with a third
\* message that also holds a code and was not requested.
C16_Witness ==
    /\ FoundCode
    /\ FirstCode = 2
    /\ 3 \in Hits
    /\ fetched = <<1, 2>>

------------------------------------------------------------------------------
(* Properties of the background worker                                       *)

\* The step is a run of the callback of interval id up to its first await.
Ticked(id) ==
    /\ id \in 1..Len(timers)
    /\ timers'[id].elapsed # timers[id].elapsed

\* The messages interval id's callbacks have sent, in a log.
SentBy(log, id) == SelectSeq(log, LAMBDA msg : msg.by = id)

\* C17: each run of an interval's callback comes 3 s of elapsed after the one
\* before; while elapsed is at most 60 s it starts a mail fetch and sends
\* nothing, which makes at most 20 fetches; the first with elapsed above 60 s
\* starts no fetch, stops polling and sends POLL_TIMEOUT to the session's tab;
\* and a callback whose fetch found a code stops polling and sends
\* AUTOFILL_CODE with that code to the session's tab.
C17_PollingSchedule ==
    [][/\ \A id \in 1..MaxDetections :
            Ticked(id) =>
                /\ timers[id].active
                /\ timers'[id].elapsed = timers[id].elapsed + 3000
                /\ IF timers'[id].elapsed <= 60000
                   THEN /\ timers'[id].fetches = timers[id].fetches + 1
                        /\ timers'[id].fetches <= 20
                        /\ awaiting'[<<"tick", id>>] = awaiting[<<"tick", id>>] + 1
                        /\ tabMessages' = tabMessages
                        /\ timers'[id].active
                   ELSE /\ timers'[id].fetches = timers[id].fetches
                        /\ awaiting' = awaiting
                        /\ ~isPolling' /\ pollIntervalId' = 0
                        /\ ~timers'[id].active
                        /\ tabMessages' = Append(tabMessages,
                               [tab |-> timers[id].tab, type |-> "POLL_TIMEOUT",
                                code |-> Null, source |-> Null, by |-> id])
       /\ \A id \in 1..MaxDetections :
            (awaiting'[<<"tick", id>>] < awaiting[<<"tick", id>>]
             /\ tabMessages' # tabMessages) =>
                /\ ~isPolling' /\ pollIntervalId' = 0
                /\ \E r \in FetchResults :
                    /\ HasCode(r)
                    /\ tabMessages' = Append(tabMessages,
                           [tab |-> timers[id].tab, type |-> "AUTOFILL_CODE",
                            code |-> r.code, source |-> r.source, by |-> id])
      ]_vars

\* C17 witness: a session that made its 20 fetches, found no code and was
\* ended by its 21st tick with POLL_TIMEOUT.
C17_Witness ==
    \E id \in 1..Len(timers) :
        /\ timers[id].fetches = 20
        /\ timers[id].elapsed = 63000
        /\ ~timers[id].active
        /\ awaiting[<<"tick", id>>] = 0
        /\ Len(SentBy(tabMessages, id)) = 1
        /\ SentBy(tabMessages, id)[1].type = "POLL_TIMEOUT"

\* C21 (as claimed): a call of fetchLatestCode that has resolved has called
\* the mail search at most twice.
C21_RetryOnce == fetchResult # None => searches <= 2

\* The step answers a CODE_FIELD_DETECTED message with the error result.
Refused ==
    /\ Len(responses') = Len(responses) + 1
    /\ ~responses'[Len(responses')].result.success

\* C22: while the stored authenticated is falsy or enabled is false, no
\* handler of CODE_FIELD_DETECTED starts a mail fetch, and a message handled
\* then is answered with the error result in a step that sends nothing to a
\* tab, sets or clears no interval and leaves isPolling and pollIntervalId.
C22_GuardedHandler ==
    [][(storage.authenticated # "true" \/ storage.enabled = "false") =>
        /\ \A t \in Tabs :
            awaiting'[<<"detect", t>>] <= awaiting[<<"detect", t>>]
        /\ (Len(responses') > Len(responses) /\ awaiting' = awaiting) =>
            /\ Refused
            /\ responses'[Len(responses')].result =
                   [success |-> FALSE, error |-> "Not authenticated or disabled"]
            /\ UNCHANGED <<isPolling, pollIntervalId, timers, tabMessages>>
      ]_vars

\* C22 witness: after a logout a message was refused while the polling
\* session of an earlier message goes on.
C22_Witness ==
    /\ storage.authenticated = "false"
    /\ isPolling /\ pollIntervalId # 0
    /\ Len(responses) = 2
    /\ ~responses[2].result.success

\* C23 (as claimed): the callbacks of one interval send at most one
\* AUTOFILL_CODE or POLL_TIMEOUT between them.
C23_OneTerminalMessage ==
    \A id \in 1..Len(timers) : Len(SentBy(tabMessages, id)) <= 1

\* The intervals that are set.
ActiveTimers == {id \in 1..Len(timers) : timers[id].active}

\* A CODE_FIELD_DETECTED of tab t was answered with polling: true.
ToldPolling(t) ==
    \E k \in 1..Len(responses) :
        /\ responses[k].tab = t
        /\ responses[k].result = [success |-> TRUE, code |-> Null, polling |-> TRUE]

\* C24: isPolling is true exactly when pollIntervalId is not null, and at most
\* one interval is set, which is then the one pollIntervalId names.
C24_OneTimer ==
    /\ isPolling <=> pollIntervalId # 0
    /\ Cardinality(ActiveTimers) <= 1
    /\ ActiveTimers = IF pollIntervalId # 0 THEN {pollIntervalId} ELSE {}

\* C24 witness: startPolling was called for both tabs, the second call while
\* the first call's interval was set, and that interval has ticked since.
C24_Witness ==
    /\ ToldPolling(1) /\ ToldPolling(2)
    /\ Len(timers) = 1
    /\ isPolling
    /\ timers[1].elapsed > 0

\* An AUTOFILL_CODE or POLL_TIMEOUT has been sent to tab t.
Delivered(t) == \E k \in 1..Len(tabMessages) : tabMessages[k].tab = t

\* C25 (as claimed): a tab whose CODE_FIELD_DETECTED was answered with
\* polling: true is eventually sent an AUTOFILL_CODE or a POLL_TIMEOUT.
C25_PollingAnswered == \A t \in Tabs : ToldPolling(t) ~> Delivered(t)

\* The calls of fillCode that filled something with code for message n of sent.
FillsFor(n, code) ==
    {j \in 1..Len(handled) :
        /\ handled[j].fill.by = n
        /\ handled[j].fill.code = code
        /\ handled[j].fill.done # <<>>}

\* C26 (as claimed): for a CODE_FIELD_DETECTED message whose immediate fetch
\* found a code, the content script calls fillCode with that code at most
\* once.
C26_FilledOnce ==
    \A n \in Notices :
        \A k \in {Cardinality({m \in Notices : m <= n})} :
            (k <= Len(responses) /\ HasCode(responses[k].result)) =>
                Cardinality(FillsFor(n, responses[k].result.code)) <= 1

====
